---- MODULE Spec2Model ----
(***************************************************************************)
(* Retrieval pipeline of the document question-answering service:          *)
(*   - DocumentLoader.chunk_text  (app/services/document_loader.py)        *)
(*   - VectorStore                (app/services/vector_store.py)           *)
(*   - process_queries, POST /run (app/api/v1/endpoints.py)                *)
(*   - ClauseMatcher              (app/services/clause_matcher.py)         *)
(* chunk_text is modelled as a step machine, one action per loop           *)
(* iteration, because the loop need not terminate.  VectorStore is         *)
(* modelled as a state machine with one action per method call.  The       *)
(* request handler is modelled with one action per stretch of code between *)
(* two awaits, for several requests at once.                               *)
(***************************************************************************)
EXTENDS Integers, Sequences, FiniteSets, TLC

VARIABLES
    \* ---- DocumentLoader.chunk_text: arguments, locals, position ----
    text,        \* argument text: a sequence of characters
    chunk_size,  \* argument chunk_size
    overlap,     \* argument overlap
    start,       \* local start
    chunks,      \* local chunks, the list that is returned
    spans,       \* history: the source slice <<lo, hi>> (0-based, hi exclusive)
                 \* of each element of chunks, as Python's slicing resolved it
    pc,          \* "idle" | "call" | "loop" | "done" | "raised"
    iters,       \* history: loop iterations executed so far
    \* ---- VectorStore: fields ----
    texts,       \* self.texts
    embeddings,  \* self.embeddings: [none |-> TRUE] models None
    metadata,    \* self.metadata
    \* ---- VectorStore: history of the calls ----
    expected,    \* history: per stored text, the metadata its add call passed
                 \* at that text's position (EmptyMapping when it passed none)
    last,        \* outcome of the last VectorStore call
    \* ---- endpoints.py: process start-up and the /run requests ----
    services,    \* "unset" | "ok" | "failed": the global service handles
    rq,          \* per request: position, inputs, answers collected so far
    stores,      \* texts of each VectorStore instance: stores[0] is the global
                 \* VECTOR_STORE, stores[r] the instance request r constructs
    \* ---- ClauseMatcher: last pure-function call and its result ----
    cm

chunkVars == <<text, chunk_size, overlap, start, chunks, spans, pc, iters>>
indexVars == <<texts, embeddings, metadata, expected, last>>
requestVars == <<services, rq, stores>>
matcherVars == <<cm>>
vars == <<text, chunk_size, overlap, start, chunks, spans, pc, iters,
          texts, embeddings, metadata, expected, last,
          services, rq, stores, cm>>

----------------------------------------------------------------------------
\* Bounds of the model.

MaxLen == 8          \* longest text handed to chunk_text
MaxDots == 2         \* most '.' characters in such a text
MaxSpaces == 1       \* most whitespace characters in such a text
MaxChunkSize == 7    \* largest chunk_size
MaxOverlap == 3      \* largest overlap
MaxIter == 9         \* loop iterations followed before the model stops looking
MaxStored == 2       \* most texts held by one VectorStore
MaxAdd == 2          \* most texts passed to one add_documents call
MaxK == 2            \* largest k passed to search

----------------------------------------------------------------------------
\* Python primitives used by chunk_text.

SetMax(S) == CHOOSE x \in S : \A y \in S : y <= x
SetMin(S) == CHOOSE x \in S : \A y \in S : x <= y

\* A slice bound as Python resolves it against a sequence of length n:
\* a negative bound counts from the end, and the result is clamped to 0..n.
NormIdx(i, n) ==
    IF i < 0 THEN (IF i + n < 0 THEN 0 ELSE i + n)
    ELSE (IF i > n THEN n ELSE i)

\* t[s:e]
Slice(t, s, e) ==
    LET lo == NormIdx(s, Len(t))
        hi == NormIdx(e, Len(t))
    IN  IF hi <= lo THEN << >> ELSE SubSeq(t, lo + 1, hi)

\* The source positions <<lo, hi>> that t[s:e] reads (hi = lo when empty).
SliceSpan(t, s, e) ==
    LET lo == NormIdx(s, Len(t))
        hi == NormIdx(e, Len(t))
    IN  IF hi <= lo THEN <<lo, lo>> ELSE <<lo, hi>>

\* t.rfind(c, s, e): highest 0-based index of c in t[s:e], or -1.
RFind(t, c, s, e) ==
    LET lo == NormIdx(s, Len(t))
        hi == NormIdx(e, Len(t))
        hits == {i \in lo .. (hi - 1) : t[i + 1] = c}
    IN  IF hits = {} THEN -1 ELSE SetMax(hits)

\* t.strip()
Strip(t) ==
    LET keep == {i \in 1 .. Len(t) : t[i] # " "}
    IN  IF keep = {} THEN << >> ELSE SubSeq(t, SetMin(keep), SetMax(keep))

----------------------------------------------------------------------------
\* DocumentLoader.chunk_text

\* WindowEnd with the raw cut one character too far.
WindowEnd_OffByOne(t, s, size) ==
    LET end == s + size
        last_period == RFind(t, ".", s, end)
    IN  IF end < Len(t) /\ last_period > s THEN last_period + 1 ELSE end + 1

\* The window end of one iteration: start + chunk_size, pulled back to just
\* after the last '.' of the window when the window ends before the text does
\* and that '.' lies strictly after start.
WindowEnd(t, s, size) ==
    LET end == s + size
        last_period == RFind(t, ".", s, end)
    IN  IF end < Len(t) /\ last_period > s THEN last_period + 1 ELSE end

\* start = end - overlap
NextStart(end, o) == end - o

\* if len(text) <= chunk_size: return [text]
ChunkCall ==
    /\ pc = "call"
    /\ IF Len(text) <= chunk_size
       THEN /\ chunks' = <<text>>
            /\ spans' = << <<0, Len(text)>> >>
            /\ pc' = "done"
       ELSE /\ chunks' = << >>
            /\ spans' = << >>
            /\ pc' = "loop"
    /\ start' = 0
    /\ UNCHANGED <<text, chunk_size, overlap, iters>>
    /\ UNCHANGED indexVars
    /\ UNCHANGED <<requestVars, matcherVars>>

\* One iteration of `while start < len(text)`.
ChunkIter ==
    /\ pc = "loop"
    /\ start < Len(text)
    /\ iters < MaxIter
    /\ LET end == WindowEnd(text, start, chunk_size)
           chunk == Strip(Slice(text, start, end))
       IN  /\ IF chunk # << >>
              THEN /\ chunks' = Append(chunks, chunk)
                   /\ spans' = Append(spans, SliceSpan(text, start, end))
              ELSE UNCHANGED <<chunks, spans>>
           /\ IF end >= Len(text)
              THEN /\ pc' = "done"
                   /\ start' = start
              ELSE /\ pc' = "loop"
                   /\ start' = NextStart(end, overlap)
    /\ iters' = iters + 1
    /\ UNCHANGED <<text, chunk_size, overlap>>
    /\ UNCHANGED indexVars
    /\ UNCHANGED <<requestVars, matcherVars>>

\* The loop condition fails: return chunks.
ChunkExit ==
    /\ pc = "loop"
    /\ ~(start < Len(text))
    /\ pc' = "done"
    /\ UNCHANGED <<text, chunk_size, overlap, start, chunks, spans, iters>>
    /\ UNCHANGED indexVars
    /\ UNCHANGED <<requestVars, matcherVars>>

Alphabet == {"a", ".", " "}

Count(t, c) == Cardinality({i \in 1 .. Len(t) : t[i] = c})

Texts ==
    {t \in UNION {[1 .. n -> Alphabet] : n \in 0 .. MaxLen} :
        Count(t, ".") <= MaxDots /\ Count(t, " ") <= MaxSpaces}

ChunkSizes == (0 - 1) .. MaxChunkSize

Overlaps == 0 .. MaxOverlap

\* The request ids of the model.
Requests == {1, 2}

\* No process start-up, no request, no ClauseMatcher call.
RequestIdle ==
    /\ services = "unset"
    /\ rq = [r \in Requests |->
                [pc |-> "new", nq |-> 0, extract |-> "n/a", answers |-> << >>,
                 hits |-> {}]]
    /\ stores = [i \in {0} \cup Requests |-> << >>]

MatcherIdle ==
    cm = [op |-> "none", text |-> << >>,
          pq |-> [keywords |-> [key |-> "absent", list |-> << >>],
                  entities |-> [key |-> "absent", list |-> << >>]],
          result |-> ""]

IndexIdle ==
    /\ texts = << >>
    /\ embeddings = [none |-> TRUE, rows |-> << >>]
    /\ metadata = << >>
    /\ expected = << >>
    /\ last = [op |-> "none", enc |-> "none", raised |-> FALSE, query |-> "",
               k |-> 0, results |-> << >>]

ChunkInit ==
    /\ text \in Texts
    /\ chunk_size \in ChunkSizes
    /\ overlap \in Overlaps
    /\ start = 0
    /\ chunks = << >>
    /\ spans = << >>
    /\ pc = "call"
    /\ iters = 0
    /\ IndexIdle
    /\ RequestIdle
    /\ MatcherIdle

ChunkNext == ChunkCall \/ ChunkIter \/ ChunkExit

ChunkSpec == ChunkInit /\ [][ChunkNext]_vars

----------------------------------------------------------------------------
\* VectorStore

\* A metadata mapping is modelled as its set of <<key, value>> items.
EmptyMapping == {}

\* The metadata a caller passes for the chunk of page p.
PageMeta(p) == {<<"page", p>>, <<"source", "document">>}

\* A metadata argument of n entries: the entry at position i is page i's.
Pages(n) == [i \in 1 .. n |-> PageMeta(i)]

TextIds == {"t1", "t2", "t3"}

Queries == {"q1", "q2"}

\* self.model.encode: the embedding service, one vector per input.  The
\* vectors of the model all have Euclidean norm 5.
Encode(x) ==
    CASE x = "t1" -> <<5, 0>>
      [] x = "t2" -> <<3, 4>>
      [] x = "t3" -> <<0, 5>>
      [] x = "q1" -> <<4, 3>>
      [] x = "q2" -> <<0 - 3, 4>>

EncodeAll(ts) == [i \in 1 .. Len(ts) |-> Encode(ts[i])]

\* cosine_similarity(q, e) = dot(q, e) / (|q| * |e|).  Every vector of the
\* model has norm 5, so the score is kept as the integer dot(q, e), which is
\* 25 times the cosine.
CosineSimilarity(q, e) == q[1] * e[1] + q[2] * e[2]

Similarities(q, rows) ==
    [i \in 1 .. Len(rows) |-> CosineSimilarity(q, rows[i])]

\* np.argsort(similarities): the index orders that sort the scores ascending.
\* The default sort is not stable, so any order of equal scores may come out.
\* Indices are 1-based here (row idx of the code is index idx + 1).
ArgSorts(sims) ==
    {p \in [1 .. Len(sims) -> 1 .. Len(sims)] :
        /\ \A i, j \in 1 .. Len(sims) : i # j => p[i] # p[j]
        /\ \A i \in 1 .. (Len(sims) - 1) : sims[p[i]] <= sims[p[i + 1]]}

Reverse(s) == [i \in 1 .. Len(s) |-> s[Len(s) + 1 - i]]

\* TopIndices with the [::-1] forgotten: the k lowest scores, ascending.
TopIndices_NoReverse(order, k) == Slice(order, 0, k)

\* np.argsort(similarities)[::-1][:k]
TopIndices(order, k) == Slice(Reverse(order), 0, k)

\* `if metadata:` is false for None and for an empty list.
Truthy(md) == ~md.none /\ Len(md.list) > 0

\* TextsAfterAdd with the texts stored before the embedding call.
TextsAfterAdd_BeforeEncode(old, ts, encOk) == old \o ts

\* self.texts after add_documents(ts, ...), ts non-empty.
TextsAfterAdd(old, ts, encOk) == IF encOk THEN old \o ts ELSE old

\* EmbeddingsAfterAdd with the new rows replacing the stored ones.
EmbeddingsAfterAdd_Replace(old, ts, encOk) ==
    IF ~encOk THEN old ELSE [none |-> FALSE, rows |-> EncodeAll(ts)]

\* self.embeddings after add_documents(ts, ...), ts non-empty.
EmbeddingsAfterAdd(old, ts, encOk) ==
    IF ~encOk THEN old
    ELSE IF old.none THEN [none |-> FALSE, rows |-> EncodeAll(ts)]
    ELSE [none |-> FALSE, rows |-> old.rows \o EncodeAll(ts)]

\* self.metadata after add_documents(ts, md), ts non-empty.
MetadataAfterAdd(old, ts, md, encOk) ==
    IF ~encOk THEN old
    ELSE IF Truthy(md) THEN old \o md.list
    ELSE old \o [i \in 1 .. Len(ts) |-> EmptyMapping]

\* History: the metadata the call passed at each position of ts.
PassedAt(ts, md) ==
    [i \in 1 .. Len(ts) |->
        IF ~md.none /\ i <= Len(md.list) THEN md.list[i] ELSE EmptyMapping]

NoResult(op, enc, raised) ==
    [op |-> op, enc |-> enc, raised |-> raised, query |-> "", k |-> 0,
     results |-> << >>]

\* NoTexts as `texts is None`: an empty list is not caught.
NoTexts_IsNone(ts) == FALSE

\* `if not texts`
NoTexts(ts) == Len(ts) = 0

\* add_documents(ts, md); encOk tells whether the embedding call succeeds.
AddDocuments(ts, md, encOk) ==
    /\ Len(texts) + Len(ts) <= MaxStored
    /\ IF NoTexts(ts)
       THEN /\ UNCHANGED <<texts, embeddings, metadata, expected>>
            /\ last' = NoResult("add", "none", FALSE)
       ELSE /\ texts' = TextsAfterAdd(texts, ts, encOk)
            /\ embeddings' = EmbeddingsAfterAdd(embeddings, ts, encOk)
            /\ metadata' = MetadataAfterAdd(metadata, ts, md, encOk)
            /\ expected' = IF encOk THEN expected \o PassedAt(ts, md)
                           ELSE expected
            /\ last' = IF encOk THEN NoResult("add", "ok", FALSE)
                       ELSE NoResult("add", "failed", TRUE)
    /\ UNCHANGED chunkVars
    /\ UNCHANGED <<requestVars, matcherVars>>

\* One element of results; idx is history (the row the hit was read from).
Hit(sims, idx) ==
    [text |-> texts[idx],
     score |-> sims[idx],
     metadata |-> IF idx <= Len(metadata) THEN metadata[idx] ELSE EmptyMapping,
     idx |-> idx]

\* for idx in top_indices: if idx < len(self.texts): results.append(...)
Results(sims, top) ==
    LET kept == SelectSeq(top, LAMBDA idx : idx <= Len(texts))
    IN  [i \in 1 .. Len(kept) |-> Hit(sims, kept[i])]

\* IsEmptyIndex with the guard left out.
IsEmptyIndex_Unchecked(e, ts) == FALSE

\* `if self.embeddings is None or len(self.texts) == 0`
IsEmptyIndex(e, ts) == e.none \/ Len(ts) = 0

\* SearchFailed with the exception re-raised, as add_documents does.
SearchFailed_Raises(q, k) ==
    [NoResult("search", "failed", TRUE) EXCEPT !.query = q, !.k = k]

\* `except Exception: return []` of search
SearchFailed(q, k) ==
    [NoResult("search", "failed", FALSE) EXCEPT !.query = q, !.k = k]

\* search(q, k); encOk tells whether the embedding call succeeds.
Search(q, k, encOk) ==
    /\ IF IsEmptyIndex(embeddings, texts)
       THEN last' = [NoResult("search", "none", FALSE)
                        EXCEPT !.query = q, !.k = k]
       ELSE IF ~encOk
       THEN last' = SearchFailed(q, k)
       ELSE LET sims == Similarities(Encode(q), embeddings.rows)
            IN  \E order \in ArgSorts(sims) :
                   last' = [NoResult("search", "ok", FALSE)
                               EXCEPT !.query = q, !.k = k,
                                      !.results =
                                         Results(sims, TopIndices(order, k))]
    /\ UNCHANGED <<texts, embeddings, metadata, expected>>
    /\ UNCHANGED chunkVars
    /\ UNCHANGED <<requestVars, matcherVars>>

SeqsUpTo(S, n) == UNION {[1 .. m -> S] : m \in 0 .. n}

\* The metadata argument: omitted (None), or a list of 0 .. MaxAdd + 1 entries,
\* so that it can be shorter than, as long as, or longer than the texts.
MetaArgs ==
    {[none |-> TRUE, list |-> << >>]} \cup
    {[none |-> FALSE, list |-> Pages(n)] : n \in 0 .. (MaxAdd + 1)}

ChunkIdle ==
    /\ text = << >>
    /\ chunk_size = 0
    /\ overlap = 0
    /\ start = 0
    /\ chunks = << >>
    /\ spans = << >>
    /\ pc = "idle"
    /\ iters = 0

\* The VectorStore as __init__ leaves it.
IndexInit ==
    /\ texts = << >>
    /\ embeddings = [none |-> TRUE, rows |-> << >>]
    /\ metadata = << >>
    /\ expected = << >>
    /\ last = NoResult("none", "none", FALSE)
    /\ ChunkIdle
    /\ RequestIdle
    /\ MatcherIdle

IndexNext ==
    \/ \E ts \in SeqsUpTo(TextIds, MaxAdd), md \in MetaArgs, encOk \in BOOLEAN :
          AddDocuments(ts, md, encOk)
    \/ \E q \in Queries, k \in 0 .. MaxK, encOk \in BOOLEAN :
          Search(q, k, encOk)

IndexSpec == IndexInit /\ [][IndexNext]_vars

-----------------------------------------------------------------------------
(* process_queries: the POST /run handler and the module initialization.   *)
(* A chunk is a record [doc, text]: doc is the request whose document it   *)
(* was cut from.  Every page of the model's documents is short enough to   *)
(* give one chunk.                                                         *)

MaxQuestions == 2

\* settings.TOP_K_RESULTS
TopKResults == 5

\* The pages a working extractor reads from the document of request r.
DocPages(r) == <<[doc |-> r, text |-> "page 1"], [doc |-> r, text |-> "page 2"]>>

\* What an extractor can do with a document.
ExtractOutcomes == {"pages", "nopages", "fails"}

UrlKinds == {"pdf", "docx", "other"}

\* extract_text_from_pdf_pypdf: a failure is turned into a one-page text.
ExtractTextFromPdfPypdf(r, pypdf) ==
    CASE pypdf = "pages"   -> DocPages(r)
      [] pypdf = "nopages" -> << >>
      [] pypdf = "fails"   ->
            <<[doc |-> r, text |-> "Could not extract text from PDF"]>>

\* extract_text_from_pdf and extract_text_from_pdf_pdfplumber: pypdf is tried
\* only when pdfplumber raises.
ExtractTextFromPdf(r, plumber, pypdf) ==
    CASE plumber = "pages"   -> DocPages(r)
      [] plumber = "nopages" -> << >>
      [] plumber = "fails"   -> ExtractTextFromPdfPypdf(r, pypdf)

\* extract_text_from_docx: an exception is not caught here.
ExtractTextFromDocx(r, docx) ==
    CASE docx = "pages"   -> [raised |-> FALSE, pages |-> DocPages(r)]
      [] docx = "nopages" -> [raised |-> FALSE, pages |-> << >>]
      [] docx = "fails"   -> [raised |-> TRUE, pages |-> << >>]

\* Lines 70-93 of the handler: the extracted pages, or the 400 error.
TextChunks(r, url, plumber, pypdf, docx) ==
    LET got == CASE url = "pdf"   ->
                      [raised |-> FALSE,
                       pages |-> ExtractTextFromPdf(r, plumber, pypdf)]
                 [] url = "docx"  -> ExtractTextFromDocx(r, docx)
                 [] url = "other" -> [raised |-> TRUE, pages |-> << >>]
    IN  IF got.raised \/ Len(got.pages) = 0
        THEN [status |-> 400, pages |-> << >>]
        ELSE [status |-> 0, pages |-> got.pages]

\* Whether the extractors recovered text of the document: "n/a" when no
\* extractor ran, "no" when every extractor that ran came back without text.
Recovered(url, plumber, pypdf, docx) ==
    CASE url = "other" -> "n/a"
      [] url = "docx"  -> IF docx = "pages" THEN "yes" ELSE "no"
      [] url = "pdf"   ->
            IF plumber = "pages" \/ (plumber = "fails" /\ pypdf = "pages")
            THEN "yes" ELSE "no"

\* The 503 check with the check left out.
ServicesAvailable_Unchecked(s) == TRUE

\* all([DOC_LOADER, QUERY_PARSER, VECTOR_STORE, LOGIC_EVALUATOR, CLAUSE_MATCHER])
ServicesAvailable(s) == s = "ok"

\* The store of every request is the global VECTOR_STORE.
StoreOf_Global(r) == 0

\* request_vector_store = VectorStore(): the store request r fills and searches.
StoreOf(r) == r

\* Module initialization: the five services are built, or all set to None; the
\* application starts in both cases.
Startup(ok) ==
    /\ services = "unset"
    /\ services' = IF ok THEN "ok" ELSE "failed"
    /\ UNCHANGED <<rq, stores, cm>>
    /\ UNCHANGED <<chunkVars, indexVars>>

\* The handler up to its first await: the 503 check, then the download starts.
Accept(r, nq) ==
    /\ services # "unset"
    /\ rq[r].pc = "new"
    /\ IF ServicesAvailable(services)
       THEN rq' = [rq EXCEPT ![r].pc = "downloading", ![r].nq = nq]
       ELSE rq' = [rq EXCEPT ![r].pc = "http503"]
    /\ UNCHANGED <<services, stores, cm>>
    /\ UNCHANGED <<chunkVars, indexVars>>

\* The handler from the end of the download to the question loop: extraction,
\* chunking, the request's own VectorStore and add_documents.  Nothing in this
\* stretch awaits.
Ingest(r, url, dl, plumber, pypdf, docx, ctorOk, encOk) ==
    /\ rq[r].pc = "downloading"
    /\ LET tc == TextChunks(r, url, plumber, pypdf, docx)
           rec == Recovered(url, plumber, pypdf, docx)
       IN  IF ~dl
           THEN /\ rq' = [rq EXCEPT ![r].pc = "http500"]
                /\ stores' = stores
           ELSE IF tc.status = 400
           THEN /\ rq' = [rq EXCEPT ![r].pc = "http400", ![r].extract = rec]
                /\ stores' = stores
           ELSE IF ~ctorOk
           THEN /\ rq' = [rq EXCEPT ![r].pc = "http500", ![r].extract = rec]
                /\ stores' = stores
           ELSE /\ rq' = [rq EXCEPT
                            ![r].pc = IF encOk THEN "answering" ELSE "http500",
                            ![r].extract = rec]
                /\ stores' = [stores EXCEPT
                                ![StoreOf(r)] = TextsAfterAdd(@, tc.pages, encOk)]
    /\ UNCHANGED <<services, cm>>
    /\ UNCHANGED <<chunkVars, indexVars>>

\* What evaluate_clauses can hand back: the answer of the reasoning service, its
\* error response, or a result whose answer field is not a string.
EvalOutcomes == {"answer", "error", "nonstring"}

\* evaluate_clauses followed by evaluation_result.get('answer', ...).
EvaluateClauses(ev) ==
    CASE ev = "answer"    -> [text |-> "answer", isStr |-> TRUE]
      [] ev = "error"     ->
            [text |-> "Unable to process the document due to a technical error.",
             isStr |-> TRUE]
      [] ev = "nonstring" -> [text |-> "None", isStr |-> FALSE]

\* find_relevant_clauses over a store: the texts of up to k entries, none when
\* the search fails.  Which entries rank first is left open.
FindRelevantClauses(store, k, searchOk) ==
    IF ~searchOk
    THEN {{}}
    ELSE {{store[i] : i \in idx} :
             idx \in {s \in SUBSET (1 .. Len(store)) :
                         Cardinality(s) = SetMin({k, Len(store)})}}

\* One pass of the question loop: exactly one answer is appended.
Question(r, searchOk, ev) ==
    /\ rq[r].pc = "answering"
    /\ Len(rq[r].answers) < rq[r].nq
    /\ \E found \in FindRelevantClauses(stores[StoreOf(r)], TopKResults, searchOk) :
          LET a == IF found = {}
                   THEN [text |-> "No relevant information found in the document for this query.",
                         isStr |-> TRUE]
                   ELSE EvaluateClauses(ev)
          IN  rq' = [rq EXCEPT
                       ![r].answers =
                           Append(@, [q |-> Len(@) + 1, text |-> a.text,
                                      isStr |-> a.isStr]),
                       ![r].hits = found]
    /\ UNCHANGED <<services, stores, cm>>
    /\ UNCHANGED <<chunkVars, indexVars>>

\* QueryResponse(answers=answers): answers is validated as a list of strings
\* inside the outer try, so a failed validation becomes a 500.
ResponseStatus(answers) ==
    IF \A i \in 1 .. Len(answers) : answers[i].isStr THEN "http200" ELSE "http500"

\* The end of the question loop.
Respond(r) ==
    /\ rq[r].pc = "answering"
    /\ Len(rq[r].answers) = rq[r].nq
    /\ rq' = [rq EXCEPT ![r].pc = ResponseStatus(rq[r].answers)]
    /\ UNCHANGED <<services, stores, cm>>
    /\ UNCHANGED <<chunkVars, indexVars>>

RequestInit ==
    /\ ChunkIdle
    /\ IndexIdle
    /\ RequestIdle
    /\ MatcherIdle

RequestNext ==
    \/ \E ok \in BOOLEAN : Startup(ok)
    \/ \E r \in Requests, nq \in 0 .. MaxQuestions : Accept(r, nq)
    \/ \E r \in Requests, url \in UrlKinds, dl \in BOOLEAN,
          plumber \in ExtractOutcomes, pypdf \in ExtractOutcomes,
          docx \in ExtractOutcomes, ctorOk \in BOOLEAN, encOk \in BOOLEAN :
          Ingest(r, url, dl, plumber, pypdf, docx, ctorOk, encOk)
    \/ \E r \in Requests, searchOk \in BOOLEAN, ev \in EvalOutcomes :
          Question(r, searchOk, ev)
    \/ \E r \in Requests : Respond(r)

RequestSpec == RequestInit /\ [][RequestNext]_vars

-----------------------------------------------------------------------------
(* ClauseMatcher: _classify_clause, _extract_key_phrases, the search       *)
(* string and the result of find_relevant_clauses, as pure functions.  A   *)
(* chunk text is a sequence of one-character strings; a search term is a   *)
(* string.                                                                 *)

MaxWords == 2
MaxTerms == 2
MaxOver == 1

\* parsed_query['keywords'][:10]
KeywordCap == 10

UpperCase == <<"A", "B", "C", "D", "E", "F", "G", "H", "I", "J", "K", "L", "M",
               "N", "O", "P", "Q", "R", "S", "T", "U", "V", "W", "X", "Y", "Z">>
LowerCase == <<"a", "b", "c", "d", "e", "f", "g", "h", "i", "j", "k", "l", "m",
               "n", "o", "p", "q", "r", "s", "t", "u", "v", "w", "x", "y", "z">>

\* str.lower() of one character.
LowerChar(c) ==
    IF \E i \in 1 .. Len(UpperCase) : UpperCase[i] = c
    THEN LowerCase[CHOOSE i \in 1 .. Len(UpperCase) : UpperCase[i] = c]
    ELSE c

\* text.lower() left out.
TextLower_Identity(t) == t

\* text.lower()
TextLower(t) == [i \in 1 .. Len(t) |-> LowerChar(t[i])]

\* word in text
Contains(t, w) ==
    \E i \in 1 .. (Len(t) - Len(w) + 1) : SubSeq(t, i, i + Len(w) - 1) = w

\* any(word in text for word in words)
AnyIn(t, words) == \E w \in words : Contains(t, w)

\* The keyword lists of _classify_clause.
CoverageWords ==
    {<<"c", "o", "v", "e", "r">>,
     <<"c", "o", "v", "e", "r", "a", "g", "e">>,
     <<"b", "e", "n", "e", "f", "i", "t">>}
WaitingWords ==
    {<<"w", "a", "i", "t", "i", "n", "g">>,
     <<"p", "e", "r", "i", "o", "d">>,
     <<"w", "a", "i", "t">>}
PremiumWords ==
    {<<"p", "r", "e", "m", "i", "u", "m">>,
     <<"p", "a", "y", "m", "e", "n", "t">>,
     <<"d", "u", "e">>}
ExclusionWords ==
    {<<"e", "x", "c", "l", "u", "d", "e">>,
     <<"e", "x", "c", "l", "u", "s", "i", "o", "n">>,
     <<"n", "o", "t", " ", "c", "o", "v", "e", "r", "e", "d">>}
AmountWords ==
    {<<"a", "m", "o", "u", "n", "t">>,
     <<"s", "u", "m">>,
     <<"l", "i", "m", "i", "t">>}

\* ClassifyClause with the exclusion rule tested first.
ClassifyClause_ExclusionFirst(t) ==
    IF AnyIn(TextLower(t), ExclusionWords) THEN "exclusion"
    ELSE IF AnyIn(TextLower(t), CoverageWords) THEN "coverage"
    ELSE IF AnyIn(TextLower(t), WaitingWords) THEN "waiting_period"
    ELSE IF AnyIn(TextLower(t), PremiumWords) THEN "premium"
    ELSE IF AnyIn(TextLower(t), AmountWords) THEN "amount"
    ELSE "general"

\* _classify_clause
ClassifyClause(t) ==
    LET text_lower == TextLower(t)
    IN  IF AnyIn(text_lower, CoverageWords) THEN "coverage"
        ELSE IF AnyIn(text_lower, WaitingWords) THEN "waiting_period"
        ELSE IF AnyIn(text_lower, PremiumWords) THEN "premium"
        ELSE IF AnyIn(text_lower, ExclusionWords) THEN "exclusion"
        ELSE IF AnyIn(text_lower, AmountWords) THEN "amount"
        ELSE "general"

\* The words the chunk texts of the model are made of.
Vocabulary ==
    {<<"C", "o", "v", "e", "r", "a", "g", "e">>,
     <<"c", "o", "v", "e", "r", "e", "d">>,
     <<"b", "e", "n", "e", "f", "i", "t">>,
     <<"W", "A", "I", "T", "I", "N", "G">>,
     <<"p", "e", "r", "i", "o", "d">>,
     <<"p", "r", "e", "m", "i", "u", "m">>,
     <<"p", "a", "y", "m", "e", "n", "t">>,
     <<"o", "v", "e", "r", "d", "u", "e">>,
     <<"E", "X", "C", "L", "U", "S", "I", "O", "N">>,
     <<"e", "x", "c", "l", "u", "d", "e">>,
     <<"N", "o", "t">>,
     <<"a", "m", "o", "u", "n", "t">>,
     <<"a", "s", "s", "u", "m", "e">>,
     <<"l", "i", "m", "i", "t">>,
     <<"p", "o", "l", "i", "c", "y">>}

\* The words of ws with one space between neighbours.
RECURSIVE Spaced(_)
Spaced(ws) ==
    IF Len(ws) = 0 THEN << >>
    ELSE IF Len(ws) = 1 THEN ws[1]
    ELSE ws[1] \o <<" ">> \o Spaced(Tail(ws))

\* The chunk texts of the model.
ClauseTexts == {Spaced(ws) : ws \in SeqsUpTo(Vocabulary, MaxWords)}

\* ' '.join(terms)
RECURSIVE Join(_)
Join(terms) ==
    IF Len(terms) = 0 THEN ""
    ELSE IF Len(terms) = 1 THEN terms[1]
    ELSE terms[1] \o " " \o Join(Tail(terms))

\* The terms a parsed query is made of.
Terms == {"general", "policy", "information", "knee surgery"}

\* Keyword lists around the cap of ten.
KeywordNames == <<"k1", "k2", "k3", "k4", "k5", "k6", "k7", "k8", "k9", "k10",
                  "k11", "k12", "k13">>
LongLists ==
    {SubSeq(KeywordNames, 1, n) : n \in (KeywordCap - 1) .. (KeywordCap + MaxOver)}

\* A key of parsed_query: missing, None, or a list.
Field(key, list) == [key |-> key, list |-> list]
Fields(lists) ==
    {Field("absent", << >>), Field("none", << >>)} \cup
    {Field("list", l) : l \in lists}

ParsedQueries ==
    [keywords : Fields(SeqsUpTo(Terms, MaxTerms) \cup LongLists),
     entities : Fields(SeqsUpTo(Terms, MaxTerms))]

\* parsed_query.get(key): None when the key is missing.
Get(f) == [none |-> f.key # "list", list |-> f.list]

\* The cap on the keywords left out.
KeywordsTaken_All(l) == l

\* parsed_query['keywords'][:10]
KeywordsTaken(l) == Slice(l, 0, KeywordCap)

\* search_terms of find_relevant_clauses
SearchTerms(pq) ==
    (IF Truthy(Get(pq.keywords)) THEN KeywordsTaken(pq.keywords.list) ELSE << >>)
    \o (IF Truthy(Get(pq.entities)) THEN pq.entities.list ELSE << >>)

\* search_query of find_relevant_clauses
SearchQuery(pq) ==
    LET search_terms == SearchTerms(pq)
    IN  IF Len(search_terms) > 0
        THEN Join(search_terms)
        ELSE "general policy information"

(* _extract_key_phrases.  The three patterns have no capturing group, so   *)
(* re.findall gives the matched substrings, scanning from the left and     *)
(* resuming after each match.  In each pattern a greedy run that is        *)
(* followed by a failure cannot succeed with a shorter run, so a match is  *)
(* computed without backtracking.  A character outside ASCII is written    *)
(* as the name of its code point.                                          *)

MaxPhraseWords == 2
MaxHits == 2

\* The rupee sign, and the three characters that stand in the money pattern
\* of clause_matcher.py where the rupee sign was meant.
Rupee == "U+20B9"
PatternSign == <<"U+00E2", "U+201A", "U+00B9">>

\* \d and \s over the characters of the model.
Digits == {"0", "1", "2", "3", "4", "5", "6", "7", "8", "9"}
Spaces == {" "}

\* The character at position i (from 1), "" beyond the end.
At(t, i) == IF i \in 1 .. Len(t) THEN t[i] ELSE ""

\* t.startswith(w, i - 1)
StartsAt(t, i, w) ==
    /\ i + Len(w) - 1 <= Len(t)
    /\ SubSeq(t, i, i + Len(w) - 1) = w

\* The position after the longest run of characters of S that starts at i.
Skip(t, i, S) ==
    SetMin({j \in i .. (Len(t) + 1) : j = Len(t) + 1 \/ t[j] \notin S})

\* (?:Rs\.?|INR|<sign>): the position after the prefix at i, 0 without one.
MoneyPrefixEnd(t, i) ==
    IF StartsAt(t, i, <<"R", "s", ".">>) THEN i + 3
    ELSE IF StartsAt(t, i, <<"R", "s">>) THEN i + 2
    ELSE IF StartsAt(t, i, <<"I", "N", "R">>) THEN i + 3
    ELSE IF StartsAt(t, i, PatternSign) THEN i + Len(PatternSign)
    ELSE 0

\* money_pattern: the position after the match that starts at i, 0 without one.
MoneyEnd(t, i) ==
    LET p == MoneyPrefixEnd(t, i)
        s == Skip(t, p, Spaces)
        d == Skip(t, s, Digits \cup {","})
    IN  IF p = 0 \/ d = s THEN 0
        ELSE IF /\ At(t, d) = "."
                /\ At(t, d + 1) \in Digits
                /\ At(t, d + 2) \in Digits
             THEN d + 3
             ELSE d

\* (?:days?|months?|years?) at i: the position after it, 0 without one.
UnitEnd(t, i) ==
    LET u == IF StartsAt(t, i, <<"d", "a", "y">>) THEN i + 3
             ELSE IF StartsAt(t, i, <<"m", "o", "n", "t", "h">>) THEN i + 5
             ELSE IF StartsAt(t, i, <<"y", "e", "a", "r">>) THEN i + 4
             ELSE 0
    IN  IF u = 0 THEN 0 ELSE IF At(t, u) = "s" THEN u + 1 ELSE u

\* time_pattern
TimeEnd(t, i) ==
    LET d == Skip(t, i, Digits)
    IN  IF d = i THEN 0 ELSE UnitEnd(t, Skip(t, d, Spaces))

\* percent_pattern
PercentEnd(t, i) ==
    LET d == Skip(t, i, Digits)
        f == Skip(t, d + 1, Digits)
        g == IF At(t, d) = "." /\ f > d + 1 THEN f ELSE d
    IN  IF d = i THEN 0 ELSE IF At(t, g) = "%" THEN g + 1 ELSE 0

MatchEnd(kind, t, i) ==
    CASE kind = "money"   -> MoneyEnd(t, i)
      [] kind = "time"    -> TimeEnd(t, i)
      [] kind = "percent" -> PercentEnd(t, i)

\* re.findall(pattern, text) from position i on.
RECURSIVE FindFrom(_, _, _)
FindFrom(kind, t, i) ==
    IF i > Len(t) THEN << >>
    ELSE LET e == MatchEnd(kind, t, i)
         IN  IF e = 0
             THEN FindFrom(kind, t, i + 1)
             ELSE <<SubSeq(t, i, e - 1)>> \o FindFrom(kind, t, e)

FindAll(kind, t) == FindFrom(kind, t, 1)

\* _extract_key_phrases with the time periods put first.
ExtractKeyPhrases_TimeFirst(t) ==
    FindAll("time", t) \o FindAll("money", t) \o FindAll("percent", t)

\* _extract_key_phrases
ExtractKeyPhrases(t) ==
    FindAll("money", t) \o FindAll("time", t) \o FindAll("percent", t)

\* The words and phrases the texts given to _extract_key_phrases are made of.
PhraseVocabulary ==
    {<<"g", "r", "a", "c", "e", " ", "p", "e", "r", "i", "o", "d", " ", "i", "s">>,
     <<"3", "0", " ", "d", "a", "y", "s">>,
     <<"3", "0">>,
     <<"m", "o", "n", "t", "h">>,
     <<"2", " ", "y", "e", "a", "r", "s">>,
     <<"R", "s", ".">>,
     <<"I", "N", "R", " ", "1", "2", ".", "5", "%">>,
     <<Rupee>>,
     <<Rupee, "5", "0", "0">>,
     PatternSign,
     <<"1", ",", "0", "0", "0", ".", "5", "0">>,
     <<"5", "%">>}

PhraseTexts == {Spaced(ws) : ws \in SeqsUpTo(PhraseVocabulary, MaxPhraseWords)}

NoQuery == [keywords |-> Field("absent", << >>), entities |-> Field("absent", << >>)]

\* A call of _classify_clause, from the idle state.
Classify(t) ==
    /\ cm.op = "none"
    /\ cm' = [op |-> "classify", text |-> t, pq |-> NoQuery,
              result |-> ClassifyClause(t)]
    /\ UNCHANGED <<chunkVars, indexVars, requestVars>>

\* The construction of the search string in a call of find_relevant_clauses,
\* from the idle state.
BuildQuery(pq) ==
    /\ cm.op = "none"
    /\ cm' = [op |-> "query", text |-> << >>, pq |-> pq,
              result |-> SearchQuery(pq)]
    /\ UNCHANGED <<chunkVars, indexVars, requestVars>>

\* A call of _extract_key_phrases, from the idle state.
ExtractPhrases(t) ==
    /\ cm.op = "none"
    /\ cm' = [op |-> "phrases", text |-> t, pq |-> NoQuery,
              result |-> ExtractKeyPhrases(t)]
    /\ UNCHANGED <<chunkVars, indexVars, requestVars>>

\* The search hits of the model: (text, score, metadata) as search returns them.
HitTexts ==
    {<<"C", "o", "v", "e", "r", "a", "g", "e">>,
     <<"2", " ", "y", "e", "a", "r", "s">>,
     <<Rupee, "5", "0", "0">>}
SearchHits ==
    {[text |-> t, score |-> p[1], metadata |-> p[2]] :
        t \in HitTexts, p \in {<<24, PageMeta(1)>>, <<7, EmptyMapping>>}}

\* The parsed queries find_relevant_clauses is called with in the model.
FindQueries ==
    {NoQuery,
     [keywords |-> Field("list", <<"policy">>), entities |-> Field("none", << >>)]}

\* The statement of find_relevant_clauses that raises, if one does: the
\* construction of the search string, the search, or the classification or the
\* key-phrase extraction of one hit.
FailPoints == {"none", "terms", "search", "classify", "phrases"}

\* The clause record built for one hit.
ClauseRecord(hit) ==
    [text |-> hit.text,
     relevance_score |-> hit.score,
     metadata |-> hit.metadata,
     clause_type |-> ClassifyClause(hit.text),
     key_phrases |-> ExtractKeyPhrases(hit.text)]

\* The except clause left out: the exception leaves find_relevant_clauses.
Propagates_Uncaught(fail) == fail # "none"

\* `except Exception` returns; nothing is re-raised.
Propagates(fail) == FALSE

\* The value find_relevant_clauses returns: the records of all hits, or []
\* from the except clause, whatever had been built before.
ClausesReturned(hits, fail) ==
    IF fail # "none" THEN << >>
    ELSE [i \in 1 .. Len(hits) |-> ClauseRecord(hits[i])]

\* A call of find_relevant_clauses, from the idle state.  A classification or
\* key-phrase extraction can only raise on a hit, the hit numbered at.
FindRelevant(pq, hits, fail, at) ==
    /\ cm.op = "none"
    /\ IF fail \in {"classify", "phrases"} THEN at \in 1 .. Len(hits) ELSE at = 0
    /\ cm' = [op |-> "find", text |-> << >>, pq |-> pq,
              result |-> [hits |-> hits, fail |-> fail, at |-> at,
                          raised |-> Propagates(fail),
                          clauses |-> ClausesReturned(hits, fail)]]
    /\ UNCHANGED <<chunkVars, indexVars, requestVars>>

MatcherInit ==
    /\ ChunkIdle
    /\ IndexIdle
    /\ RequestIdle
    /\ MatcherIdle

\* Each behaviour is one call: the test for the idle state stands before the
\* choice of the arguments, so that it is made once per state.
MatcherNext ==
    \/ cm.op = "none" /\ \E t \in ClauseTexts : Classify(t)
    \/ cm.op = "none" /\ \E pq \in ParsedQueries : BuildQuery(pq)
    \/ cm.op = "none" /\ \E t \in PhraseTexts : ExtractPhrases(t)
    \/ cm.op = "none" /\
          \E pq \in FindQueries, hits \in SeqsUpTo(SearchHits, MaxHits),
             fail \in FailPoints, at \in 0 .. MaxHits :
             FindRelevant(pq, hits, fail, at)

MatcherSpec == MatcherInit /\ [][MatcherNext]_vars

----------------------------------------------------------------------------
\* Claims about chunk_text, checked under ChunkSpec.

\* Characters that the source slices <<lo, hi>> of two chunks have in common.
Shared(a, b) ==
    LET lo == IF a[1] > b[1] THEN a[1] ELSE b[1]
        hi == IF a[2] < b[2] THEN a[2] ELSE b[2]
    IN  IF hi > lo THEN hi - lo ELSE 0

\* Position i (1-based) of the text lies in the source slice of some chunk.
Covered(i) == \E j \in 1 .. Len(spans) : spans[j][1] < i /\ i <= spans[j][2]

\* C2: for chunk_size > 0 and overlap >= 0 the window start strictly
\* increases from one loop iteration to the next (so the loop terminates).
C2_StartStrictlyIncreases ==
    [][(chunk_size > 0 /\ overlap >= 0 /\ pc = "loop" /\ pc' = "loop")
         => start' > start]_vars

\* C4: when chunk_text returns (chunk_size > 0), every non-whitespace
\* character position of the text lies inside the window of some chunk.
C4_Coverage ==
    (pc = "done" /\ chunk_size > 0) =>
        \A i \in 1 .. Len(text) : text[i] # " " => Covered(i)

\* C5: with chunk_size <= 0 the call raises: it neither enters the loop nor
\* returns chunks.
C5_FailsFast ==
    (chunk_size <= 0 /\ pc # "call") => pc = "raised"

\* C6: every chunk is at most chunk_size characters long: every chunk a call
\* returns, and for chunk_size > 0 every chunk collected so far.
C6_ChunkBound ==
    (pc = "done" \/ (pc = "loop" /\ chunk_size > 0)) =>
        \A i \in 1 .. Len(chunks) : Len(chunks[i]) <= chunk_size

\* C6 witness: a returned list of several chunks, one of them a full window of
\* chunk_size characters and an earlier one cut short at a sentence boundary.
C6_Witness ==
    /\ pc = "done"
    /\ Len(chunks) >= 2
    /\ \E i \in 1 .. Len(chunks) : Len(chunks[i]) = chunk_size
    /\ \E j \in 1 .. (Len(chunks) - 1) :
          /\ spans[j][2] - spans[j][1] < chunk_size
          /\ text[spans[j][2]] = "."

\* C7: when several chunks are returned with overlap > 0, the source slices
\* of consecutive chunks share at least overlap characters.
C7_OverlapShared ==
    (pc = "done" /\ chunk_size > 0 /\ overlap > 0 /\ Len(chunks) > 1) =>
        \A i \in 1 .. (Len(chunks) - 1) :
            Shared(spans[i], spans[i + 1]) >= overlap

\* C8: no returned chunk is empty after trimming whitespace.
C8_NoEmptyChunk ==
    pc = "done" => \A i \in 1 .. Len(chunks) : Strip(chunks[i]) # << >>

----------------------------------------------------------------------------
\* Claims about VectorStore, checked under IndexSpec.

\* Rows of the embedding matrix (None holds no row).
Rows(e) == IF e.none THEN 0 ELSE Len(e.rows)

\* C1: after any sequence of add calls the index holds as many embedding rows
\* and as many metadata entries as texts.
C1_LengthsEqual ==
    /\ Len(texts) = Rows(embeddings)
    /\ Len(texts) = Len(metadata)

\* C3: every hit of a search carries the metadata that the add call which
\* stored the hit's text passed at that text's position, or the empty
\* mapping when that call passed none for the position.
C3_HitMetadata ==
    last.op = "search" =>
        \A i \in 1 .. Len(last.results) :
            last.results[i].metadata = expected[last.results[i].idx]

\* C9: a search returns at most k hits, no hit ranked above one with a higher
\* score, and, when the query was embedded and k is at least the number of
\* stored entries, every stored entry exactly once.
C9_TopK ==
    last.op = "search" =>
        /\ Len(last.results) <= last.k
        /\ \A i, j \in 1 .. Len(last.results) :
              i < j => last.results[i].score >= last.results[j].score
        /\ (last.enc = "ok" /\ last.k >= Len(texts)) =>
              /\ Len(last.results) = Len(texts)
              /\ {last.results[i].idx : i \in 1 .. Len(last.results)}
                    = 1 .. Len(texts)

\* C9 witness: a search of an index of several entries with k below their
\* number returned k hits, and a lower-scored entry was left out.
C9_Witness ==
    /\ last.op = "search"
    /\ last.enc = "ok"
    /\ Len(texts) > last.k
    /\ last.k >= 1
    /\ Len(last.results) = last.k
    /\ \E n \in 1 .. Len(texts) :
          CosineSimilarity(Encode(last.query), embeddings.rows[n])
             < last.results[last.k].score

\* C10: an add call whose embedding call fails raises and leaves texts,
\* embeddings and metadata as they were.
C10_FailedAddAtomic ==
    [][(last'.op = "add" /\ last'.enc = "failed") =>
          /\ last'.raised
          /\ texts' = texts
          /\ embeddings' = embeddings
          /\ metadata' = metadata]_vars

\* C10 witness: an add call on a populated index has just failed and raised.
C10_Witness ==
    /\ last.op = "add"
    /\ last.enc = "failed"
    /\ last.raised
    /\ Len(texts) > 0
    /\ Len(texts) = Rows(embeddings)


\* C11: a search of a populated index whose embedding call fails does not
\* raise, returns no hit, and leaves texts, embeddings and metadata as they
\* were.
C11_FailedSearchDegrades ==
    [][(last'.op = "search" /\ last'.enc = "failed") =>
          /\ ~last'.raised
          /\ last'.results = << >>
          /\ Len(texts) > 0
          /\ texts' = texts
          /\ embeddings' = embeddings
          /\ metadata' = metadata]_vars

\* C11 witness: a search of a populated index has just had its embedding call
\* fail.
C11_Witness ==
    /\ last.op = "search"
    /\ last.enc = "failed"
    /\ last.k > 0
    /\ Len(texts) > 0

\* C12: a search of an index that holds no chunk returns no hit, does not
\* raise and does not call the embedding service.
C12_EmptyIndexSearch ==
    (last.op = "search" /\ Len(texts) = 0) =>
        /\ last.results = << >>
        /\ ~last.raised
        /\ last.enc = "none"

\* C12 witness: a search with k > 0 has just run on an index without chunks.
C12_Witness ==
    /\ last.op = "search"
    /\ last.k > 0
    /\ Len(texts) = 0
    /\ embeddings.none

IsPrefix(a, b) == Len(a) <= Len(b) /\ SubSeq(b, 1, Len(a)) = a

\* C13: every step keeps the stored texts, embedding rows and metadata as a
\* prefix of the new ones, and a search step leaves all three unchanged.
C13_AppendOnly ==
    [][/\ IsPrefix(texts, texts')
       /\ IsPrefix(embeddings.rows, embeddings'.rows)
       /\ IsPrefix(metadata, metadata')
       /\ (last'.op = "search" =>
              /\ texts' = texts
              /\ embeddings' = embeddings
              /\ metadata' = metadata)]_vars

\* C13 witness: a second successful add call has appended to what the first
\* one stored.
C13_Witness ==
    /\ last.op = "add"
    /\ last.enc = "ok"
    /\ Len(texts) = 2
    /\ Rows(embeddings) = 2
    /\ expected = <<EmptyMapping, PageMeta(1)>>

\* C14: an add call with empty texts, whatever metadata it passes, leaves
\* texts, embeddings and metadata unchanged, does not call the embedding
\* service and does not raise; this holds from every state, so also when
\* the call is repeated.
C14_EmptyAddNoOp ==
    [][(\E md \in MetaArgs, encOk \in BOOLEAN : AddDocuments(<< >>, md, encOk))
         => /\ texts' = texts
            /\ embeddings' = embeddings
            /\ metadata' = metadata
            /\ last'.op = "add"
            /\ last'.enc = "none"
            /\ ~last'.raised]_vars

\* C14 witness: an add call with empty texts has just returned on a populated
\* index.
C14_Witness ==
    /\ last.op = "add"
    /\ last.enc = "none"
    /\ Len(texts) > 0
    /\ Len(texts) = Rows(embeddings)

-----------------------------------------------------------------------------
\* Claims about the /run handler, checked under RequestSpec.

\* The request has come to an end.
Ended(r) == rq[r].pc \in {"http200", "http400", "http500", "http503"}

\* C15: a request whose document was ingested ends with a successful response
\* that holds exactly one answer per submitted question, in input order,
\* whichever of its questions failed in retrieval or reasoning.
C15_OneAnswerPerQuestion ==
    \A r \in Requests :
        (Ended(r) /\ Len(stores[r]) > 0) =>
            /\ rq[r].pc = "http200"
            /\ Len(rq[r].answers) = rq[r].nq
            /\ \A i \in 1 .. Len(rq[r].answers) : rq[r].answers[i].q = i

\* C16: when extraction recovers no text of the document, both PDF extractors
\* failing included, the request ends in an error, no chunk is added to an
\* index and no question is answered.
C16_NoTextAborts ==
    \A r \in Requests :
        rq[r].extract = "no" =>
            /\ rq[r].pc \in {"http400", "http500"}
            /\ stores[r] = << >>
            /\ stores[0] = << >>
            /\ rq[r].answers = << >>

\* C17: under every interleaving of requests the global VECTOR_STORE never
\* receives a chunk, the store of a request holds only chunks of the
\* request's own document, and so do the hits of each of its searches.
C17_RequestIsolation ==
    /\ stores[0] = << >>
    /\ texts = << >> /\ embeddings.none /\ metadata = << >>
    /\ \A r \in Requests :
          /\ \A i \in 1 .. Len(stores[r]) : stores[r][i].doc = r
          /\ \A h \in rq[r].hits : h.doc = r

\* C17 witness: both requests have indexed their documents and are in the
\* question loop at once, and each has had hits from a search.
C17_Witness ==
    \A r \in Requests :
        /\ rq[r].pc = "answering"
        /\ Len(stores[r]) > 0
        /\ rq[r].hits # {}

\* C18 as stated: once initialization has failed no /run request is accepted,
\* so every request is still waiting to be taken up.
C18_NoRequestAfterFailedInit ==
    services = "failed" => \A r \in Requests : rq[r].pc = "new"

\* C18: after a failed initialization the process keeps serving and every
\* /run request it takes up is refused with 503 before any download,
\* extraction, indexing or question processing.
C18_FailedInitRefuses ==
    services = "failed" =>
        /\ \A r \in Requests :
              /\ rq[r].pc \in {"new", "http503"}
              /\ rq[r].extract = "n/a"
              /\ rq[r].answers = << >>
              /\ rq[r].hits = {}
        /\ \A i \in DOMAIN stores : stores[i] = << >>

\* C18 witness: initialization has failed and a request has been refused.
C18_Witness ==
    /\ services = "failed"
    /\ \E r \in Requests : rq[r].pc = "http503"

-----------------------------------------------------------------------------
\* Claims about ClauseMatcher, checked under MatcherSpec.

\* The rules in priority order.
Rules ==
    <<[tag |-> "coverage", words |-> CoverageWords],
      [tag |-> "waiting_period", words |-> WaitingWords],
      [tag |-> "premium", words |-> PremiumWords],
      [tag |-> "exclusion", words |-> ExclusionWords],
      [tag |-> "amount", words |-> AmountWords]>>

ClauseTags ==
    {"coverage", "waiting_period", "premium", "exclusion", "amount", "general"}

\* The rules that have a keyword occurring in the text t with every letter
\* put in lower case.
Matching(t) ==
    LET low == [i \in 1 .. Len(t) |-> LowerChar(t[i])]
    IN  {i \in 1 .. Len(Rules) : \E w \in Rules[i].words : Contains(low, w)}

\* C19: the clause type is the tag of the first rule, in the order coverage,
\* waiting_period, premium, exclusion, amount, that has a keyword occurring in
\* the lower-cased text, and general when no rule has one; a text with both
\* "coverage" and "exclusion" is tagged coverage; the tag is one of the six.
C19_FirstMatchWins ==
    cm.op = "classify" =>
        /\ cm.result \in ClauseTags
        /\ cm.result = IF Matching(cm.text) = {} THEN "general"
                       ELSE Rules[SetMin(Matching(cm.text))].tag
        /\ ({1, 4} \subseteq Matching(cm.text) => cm.result = "coverage")

\* C19 witness: a text in mixed case with both a coverage and an exclusion
\* keyword has been classified.
C19_Witness ==
    /\ cm.op = "classify"
    /\ cm.text = <<"C", "o", "v", "e", "r", "a", "g", "e", " ",
                   "E", "X", "C", "L", "U", "S", "I", "O", "N">>
    /\ cm.result = "coverage"

\* The terms of a key of parsed_query, none when the key is missing or None.
TermsOf(f) == IF f.key = "list" THEN f.list ELSE << >>

\* The first min(10, n) keywords followed by all entities.
Expected(pq) ==
    LET kws == TermsOf(pq.keywords)
        n == Len(kws)
    IN  SubSeq(kws, 1, SetMin({10, n})) \o TermsOf(pq.entities)

BothEmpty(pq) == Len(TermsOf(pq.keywords)) = 0 /\ Len(TermsOf(pq.entities)) = 0

\* C20 as stated: the search string is the first min(10, n) keywords followed
\* by all entities, joined by single spaces, and it is the literal "general
\* policy information" exactly when keywords and entities are both absent or
\* empty.
C20_FallbackExactlyWhenEmpty ==
    cm.op = "query" =>
        /\ (~BothEmpty(cm.pq) => cm.result = Join(Expected(cm.pq)))
        /\ (cm.result = "general policy information" <=> BothEmpty(cm.pq))

\* C20: the search string is the first min(10, n) keywords followed by all
\* entities, joined by single spaces, when there is at least one such term,
\* and the literal "general policy information" when keywords and entities
\* are both absent, None or empty.
C20_SearchString ==
    cm.op = "query" =>
        cm.result = IF BothEmpty(cm.pq)
                    THEN "general policy information"
                    ELSE Join(Expected(cm.pq))

\* C20 witness: a search string has been built from more than ten keywords
\* and some entities.
C20_Witness ==
    /\ cm.op = "query"
    /\ Len(TermsOf(cm.pq.keywords)) > 10
    /\ Len(TermsOf(cm.pq.entities)) > 0
    /\ cm.result # "general policy information"

\* C21: find_relevant_clauses never raises; when the construction of the search
\* string, the search, a classification or a key-phrase extraction raises, it
\* returns an empty sequence; otherwise it returns one clause record per hit,
\* in the order of the hits, with the text, score and metadata of that hit.
C21_NeverRaises ==
    cm.op = "find" =>
        LET hits == cm.result.hits
            clauses == cm.result.clauses
        IN  /\ ~cm.result.raised
            /\ cm.result.fail # "none" => clauses = << >>
            /\ cm.result.fail = "none" =>
                  /\ Len(clauses) = Len(hits)
                  /\ \A i \in 1 .. Len(hits) :
                        /\ clauses[i].text = hits[i].text
                        /\ clauses[i].relevance_score = hits[i].score
                        /\ clauses[i].metadata = hits[i].metadata

\* C21 witness: the key-phrase extraction of the second of two hits has raised
\* and the call has returned the empty sequence.
C21_Witness ==
    /\ cm.op = "find"
    /\ cm.result.fail = "phrases"
    /\ Len(cm.result.hits) = 2
    /\ cm.result.at = 2
    /\ cm.result.clauses = << >>

\* C22: a text in which the rupee sign is followed by a digit has the amount
\* that starts at that sign in its key-phrase list.
C22_RupeeAmount ==
    cm.op = "phrases" =>
        \A i \in 1 .. Len(cm.text) :
            (cm.text[i] = Rupee /\ At(cm.text, i + 1) \in Digits) =>
                \E k \in 1 .. Len(cm.result) :
                    /\ cm.result[k][1] = Rupee
                    /\ StartsAt(cm.text, i, cm.result[k])

\* The phrases of g occur in t one after the other, from position from on.
RECURSIVE Embeds(_, _, _)
Embeds(t, g, from) ==
    \/ Len(g) = 0
    \/ \E i \in from .. Len(t) :
          /\ StartsAt(t, i, Head(g))
          /\ Embeds(t, Tail(g), i + Len(Head(g)))

GracePeriodText ==
    <<"g", "r", "a", "c", "e", " ", "p", "e", "r", "i", "o", "d", " ", "i", "s",
      " ", "3", "0", " ", "d", "a", "y", "s">>

\* C23: the key-phrase list is all currency-amount matches, then all
\* time-period matches, then all percentage matches, each group in the order
\* of the text and with a phrase listed once per occurrence; "grace period is
\* 30 days" gives exactly ["30 days"].
C23_GroupsInOrder ==
    cm.op = "phrases" =>
        LET money == FindAll("money", cm.text)
            time == FindAll("time", cm.text)
            percent == FindAll("percent", cm.text)
            twoYears == <<"2", " ", "y", "e", "a", "r", "s">>
        IN  /\ cm.result = money \o time \o percent
            /\ Embeds(cm.text, money, 1)
            /\ Embeds(cm.text, time, 1)
            /\ Embeds(cm.text, percent, 1)
            /\ cm.text = GracePeriodText => cm.result = <<<<"3", "0", " ", "d", "a", "y", "s">>>>
            /\ cm.text = twoYears \o <<" ">> \o twoYears =>
                  cm.result = <<twoYears, twoYears>>

\* C23 witness: the key phrases of "grace period is 30 days" have been
\* extracted.
C23_Witness ==
    /\ cm.op = "phrases"
    /\ cm.text = GracePeriodText
    /\ Len(cm.result) = 1

\* The text t with every letter in lower case has the keyword w in it.
Has(t, w) == Contains([i \in 1 .. Len(t) |-> LowerChar(t[i])], w)

\* C24: every text that has "not covered" in it, in any letter case, is tagged
\* coverage; a text is tagged exclusion only if it has "exclude" or
\* "exclusion" in it and no coverage, waiting_period or premium keyword.
C24_NotCoveredIsCoverage ==
    cm.op = "classify" =>
        /\ Has(cm.text, <<"n", "o", "t", " ", "c", "o", "v", "e", "r", "e", "d">>)
              => cm.result = "coverage"
        /\ cm.result = "exclusion" =>
              /\ \/ Has(cm.text, <<"e", "x", "c", "l", "u", "d", "e">>)
                 \/ Has(cm.text, <<"e", "x", "c", "l", "u", "s", "i", "o", "n">>)
              /\ \A w \in CoverageWords \cup WaitingWords \cup PremiumWords :
                    ~Has(cm.text, w)

\* C24 witness: the text "Not covered" has been classified.
C24_Witness ==
    /\ cm.op = "classify"
    /\ cm.text = <<"N", "o", "t", " ", "c", "o", "v", "e", "r", "e", "d">>
    /\ cm.result = "coverage"

====
